---- MODULE Spec2Model ----
(***************************************************************************)
(* Model of the convolutional autoencoder of ae.py and of the driver of    *)
(* train.py: the construction of the encoder, decoder and autoencoder      *)
(* graphs from the hyperparameters (layer names, output shapes, weight     *)
(* tensors), and save/load of the two artifact files.                      *)
(*                                                                         *)
(* A Python value that may be None is a sequence of length 0 or 1:         *)
(* None = <<>>, a value v = <<v>>.  Python sequences are 0-indexed; the    *)
(* operator Item reads them.  An exception raised inside a call is carried *)
(* in the field exc of what the call returns.                              *)
(***************************************************************************)
EXTENDS Integers, Sequences, FiniteSets, TLC

VARIABLES self, pc, ae, dirs, files, outcome

vars == <<self, pc, ae, dirs, files, outcome>>

\* ----------------------------------------------------------------- bounds
MaxDim == 3        \* input height and width range over 1..MaxDim
MaxLayers == 2     \* each per-layer sequence has 0..MaxLayers entries
MaxTrain == 1      \* train calls counted per instance

\* the values the other hyperparameters are drawn from
ChannelValues == {1, 2}
FilterValues == {1, 2}
KernelValues == {3}
StrideValues == {1, 2}
LatentValues == {1, 2}

\* ------------------------------------------------------- Python helpers
None == <<>>
Some(v) == <<v>>
Val(o) == o[1]

\* seq[i] of Python, 0-indexed; the caller checks InRange first
Item(seq, i) == seq[i + 1]
InRange(seq, i) == i < Len(seq)

RECURSIVE Prod(_)
\* np.prod of a shape tuple
Prod(shape) == IF shape = <<>> THEN 1 ELSE Head(shape) * Prod(Tail(shape))

\* Python evaluates the right-hand side of an assignment once:
\* Only({e : x \in {v}}) is e with x bound to the value of v
Only(S) == CHOOSE r \in S : TRUE

SeqsUpTo(S, n) == UNION {[1..k -> S] : k \in 0..n}

\* ------------------------------------------------ Keras layer semantics
\* Output length of a convolution with padding="same": ceil(d / stride)
ConvOutputLength(d, kernel_size, stride) == (d + stride - 1) \div stride

\* (mutant) a transposed convolution with padding="valid"
DeconvOutputLengthValid(d, kernel_size, stride) ==
    d * stride + (IF kernel_size > stride THEN kernel_size - stride ELSE 0)

\* Output length of a transposed convolution with padding="same": d * stride
DeconvOutputLength(d, kernel_size, stride) == d * stride

Tensor(shape, trainable) == [shape |-> shape, trainable |-> trainable]

Layer(cls, name, explicit, activation, output_shape, weights) ==
    [cls |-> cls, name |-> name, explicit_name |-> explicit,
     activation |-> activation, output_shape |-> output_shape,
     weights |-> weights]

\* A symbolic tensor: the layers that produce it and its shape without the
\* batch dimension (K.int_shape(x)[1:]).
Input(shape, name) ==
    [layers |-> <<Layer("InputLayer", name, TRUE, "", shape, <<>>)>>,
     shape |-> shape]

Apply(layer, x) ==
    [layers |-> Append(x.layers, layer), shape |-> layer.output_shape]

Conv2D(filters, kernel_size, strides, name, x) ==
    Apply(Layer("Conv2D", name, TRUE, "linear",
                <<ConvOutputLength(x.shape[1], kernel_size, strides),
                  ConvOutputLength(x.shape[2], kernel_size, strides), filters>>,
                <<Tensor(<<kernel_size, kernel_size, x.shape[3], filters>>, TRUE),
                  Tensor(<<filters>>, TRUE)>>), x)

Conv2DTranspose(filters, kernel_size, strides, name, x) ==
    Apply(Layer("Conv2DTranspose", name, TRUE, "linear",
                <<DeconvOutputLength(x.shape[1], kernel_size, strides),
                  DeconvOutputLength(x.shape[2], kernel_size, strides), filters>>,
                <<Tensor(<<kernel_size, kernel_size, filters, x.shape[3]>>, TRUE),
                  Tensor(<<filters>>, TRUE)>>), x)

ReLU(name, x) == Apply(Layer("ReLU", name, TRUE, "relu", x.shape, <<>>), x)

BatchNormalization(name, x) ==
    LET c == <<x.shape[Len(x.shape)]>>
    IN  Apply(Layer("BatchNormalization", name, TRUE, "", x.shape,
                    <<Tensor(c, TRUE), Tensor(c, TRUE),
                      Tensor(c, FALSE), Tensor(c, FALSE)>>), x)

Flatten(x) ==
    Apply(Layer("Flatten", "flatten", FALSE, "", <<Prod(x.shape)>>, <<>>), x)

Dense(units, name, x) ==
    Apply(Layer("Dense", name, TRUE, "linear", <<units>>,
                <<Tensor(<<x.shape[Len(x.shape)], units>>, TRUE),
                  Tensor(<<units>>, TRUE)>>), x)

Reshape(target_shape, x) ==
    Apply(Layer("Reshape", "reshape", FALSE, "", target_shape, <<>>), x)

Activation(activation, name, x) ==
    Apply(Layer("Activation", name, TRUE, activation, x.shape, <<>>), x)

\* Model(inputs, outputs, name): the graph from the input to the output
Model(x, name) ==
    [name |-> name, layers |-> x.layers,
     input_shape |-> x.layers[1].output_shape, output_shape |-> x.shape]

RECURSIVE LayerTensors(_, _)
\* the tensors of the layers of a model, in layer order, trainable or not
LayerTensors(layers, trainable) ==
    IF layers = <<>> THEN <<>>
    ELSE SelectSeq(Head(layers).weights, LAMBDA t : t.trainable = trainable)
         \o LayerTensors(Tail(layers), trainable)

\* model.weights: the trainable tensors, then the non-trainable ones
ModelWeights(model) ==
    LayerTensors(model.layers, TRUE) \o LayerTensors(model.layers, FALSE)

\* a model called as a layer of another model
AsLayer(model, x) ==
    Apply(Layer("Functional", model.name, TRUE, "", model.output_shape,
                ModelWeights(model)), x)

\* ------------------------------------------------------------ exceptions
Raised(type, fn, index) == Some([type |-> type, fn |-> fn, index |-> index])

\* ----------------------------------------------------------- Autoencoder
\* (mutant) the number of layers taken as the length of the shortest sequence
NewObjectShortest(hp, serial) ==
    LET n == CHOOSE m \in {Len(hp.conv_filters), Len(hp.conv_kernels), Len(hp.conv_strides)} :
                 /\ m <= Len(hp.conv_filters)
                 /\ m <= Len(hp.conv_kernels)
                 /\ m <= Len(hp.conv_strides)
    IN  [input_shape |-> hp.input_shape,
         conv_filters |-> hp.conv_filters,
         conv_kernels |-> hp.conv_kernels,
         conv_strides |-> hp.conv_strides,
         latent_space_dim |-> hp.latent_space_dim,
         encoder |-> None,
         decoder |-> None,
         model |-> None,
         _shape_before_bottleneck |-> None,
         _model_input |-> None,
         _num_conv_layers |-> n,
         compiled |-> FALSE,
         weight_values |-> <<>>,
         serial |-> serial,
         exc |-> None]

\* __init__ up to the call of _build.  compiled (the Keras model has an
\* optimizer and a loss) and weight_values (the values of model.weights, one
\* per tensor) are the state of self.model that compile, train, save and
\* load_weights read and write (weight_values[k][j] is the value of tensor
\* j of layer k of self.model); serial tells one construction's random
\* initial weights from another's.
NewObject(hp, serial) ==
    [input_shape |-> hp.input_shape,
     conv_filters |-> hp.conv_filters,
     conv_kernels |-> hp.conv_kernels,
     conv_strides |-> hp.conv_strides,
     latent_space_dim |-> hp.latent_space_dim,
     encoder |-> None,
     decoder |-> None,
     model |-> None,
     _shape_before_bottleneck |-> None,
     _model_input |-> None,
     _num_conv_layers |-> Len(hp.conv_filters),
     compiled |-> FALSE,
     weight_values |-> <<>>,
     serial |-> serial,
     exc |-> None]

_add_encoder_input(s) == Input(s.input_shape, "encoder_input")

_add_conv_layer(s, layer_index, x) ==
    LET layer_number == layer_index + 1
    IN  IF ~InRange(s.conv_kernels, layer_index)
        THEN [x |-> x, exc |-> Raised("IndexError", "_add_conv_layer", layer_index)]
        ELSE IF ~InRange(s.conv_strides, layer_index)
        THEN [x |-> x, exc |-> Raised("IndexError", "_add_conv_layer", layer_index)]
        ELSE LET c == Conv2D(Item(s.conv_filters, layer_index),
                             Item(s.conv_kernels, layer_index),
                             Item(s.conv_strides, layer_index),
                             "encoder_conv_layer_" \o ToString(layer_number), x)
                 r == ReLU("encoder_relu_" \o ToString(layer_number), c)
                 b == BatchNormalization("encoder_bn_" \o ToString(layer_number), r)
             IN  [x |-> b, exc |-> None]

RECURSIVE ConvLayersFrom(_, _, _)
\* the loop of _add_conv_layers from layer_index on
ConvLayersFrom(s, layer_index, x) ==
    IF layer_index >= s._num_conv_layers THEN [x |-> x, exc |-> None]
    ELSE LET r == _add_conv_layer(s, layer_index, x)
         IN  IF r.exc # None THEN r
             ELSE ConvLayersFrom(s, layer_index + 1, r.x)

_add_conv_layers(s, encoder_input) == ConvLayersFrom(s, 0, encoder_input)

\* (mutant) the shape is read after Flatten instead of before it
_add_bottleneck_after_flatten(s, x) ==
    [s |-> [s EXCEPT !._shape_before_bottleneck = Some(Flatten(x).shape)],
     x |-> Dense(s.latent_space_dim, "encoder_output", Flatten(x))]

\* returns the bottleneck tensor and the object with the derived shape set
_add_bottleneck(s, x) ==
    [s |-> [s EXCEPT !._shape_before_bottleneck = Some(x.shape)],
     x |-> Dense(s.latent_space_dim, "encoder_output", Flatten(x))]

_build_encoder(s) ==
    LET encoder_input == _add_encoder_input(s)
        conv_layers == _add_conv_layers(s, encoder_input)
    IN  IF conv_layers.exc # None THEN [s EXCEPT !.exc = conv_layers.exc]
        ELSE LET bottleneck == _add_bottleneck(s, conv_layers.x)
             IN  [bottleneck.s EXCEPT !._model_input = Some(encoder_input),
                                      !.encoder = Some(Model(bottleneck.x, "encoder"))]

_add_decoder_input(s) == Input(<<s.latent_space_dim>>, "decoder_input")

_add_dense_layer(s, decoder_input) ==
    LET num_neurons == Prod(Val(s._shape_before_bottleneck))
    IN  Dense(num_neurons, "decoder_dense", decoder_input)

_add_reshape_layer(s, dense_layer) ==
    Reshape(Val(s._shape_before_bottleneck), dense_layer)

\* the block of _add_conv_transpose_layer with the given name of its first layer
ConvTransposeBlock(s, layer_index, x, conv_name) ==
    LET layer_num == s._num_conv_layers - layer_index
    IN  IF ~InRange(s.conv_kernels, layer_index)
        THEN [x |-> x, exc |-> Raised("IndexError", "_add_conv_transpose_layer", layer_index)]
        ELSE IF ~InRange(s.conv_strides, layer_index)
        THEN [x |-> x, exc |-> Raised("IndexError", "_add_conv_transpose_layer", layer_index)]
        ELSE LET c == Conv2DTranspose(Item(s.conv_filters, layer_index),
                                      Item(s.conv_kernels, layer_index),
                                      Item(s.conv_strides, layer_index),
                                      conv_name \o ToString(layer_num), x)
                 r == ReLU("decoder_relu_" \o ToString(layer_num), c)
                 b == BatchNormalization("decoder_bn_" \o ToString(layer_num), r)
             IN  [x |-> b, exc |-> None]

\* (mutant) the first layer of the block named like the output layer
_add_conv_transpose_layer_renamed(s, layer_index, x) ==
    ConvTransposeBlock(s, layer_index, x, "decoder_conv_transpose_layer_")

_add_conv_transpose_layer(s, layer_index, x) ==
    ConvTransposeBlock(s, layer_index, x, "dcoder_conv_transpose_layer_")

RECURSIVE ConvTransposeLayersFrom(_, _, _)
\* the loop of _add_conv_transpose_layers from layer_index down to 0
ConvTransposeLayersFrom(s, layer_index, x) ==
    IF layer_index < 0 THEN [x |-> x, exc |-> None]
    ELSE LET r == _add_conv_transpose_layer(s, layer_index, x)
         IN  IF r.exc # None THEN r
             ELSE ConvTransposeLayersFrom(s, layer_index - 1, r.x)

_add_conv_transpose_layers(s, x) ==
    ConvTransposeLayersFrom(s, s._num_conv_layers - 1, x)

\* (mutant) the output layer falls back to kernel 1, stride 1 when there is
\* no first layer to take them from
_add_decoder_output_defaulting(s, x) ==
    LET k == IF InRange(s.conv_kernels, 0) THEN Item(s.conv_kernels, 0) ELSE 1
        st == IF InRange(s.conv_strides, 0) THEN Item(s.conv_strides, 0) ELSE 1
        c == Conv2DTranspose(1, k, st,
                 "decoder_conv_transpose_layer_" \o ToString(s._num_conv_layers), x)
    IN  [x |-> Activation("sigmoid", "sigmoid_layer", c), exc |-> None]

_add_decoder_output(s, x) ==
    IF ~InRange(s.conv_kernels, 0)
    THEN [x |-> x, exc |-> Raised("IndexError", "_add_decoder_output", 0)]
    ELSE IF ~InRange(s.conv_strides, 0)
    THEN [x |-> x, exc |-> Raised("IndexError", "_add_decoder_output", 0)]
    ELSE LET c == Conv2DTranspose(1, Item(s.conv_kernels, 0), Item(s.conv_strides, 0),
                      "decoder_conv_transpose_layer_" \o ToString(s._num_conv_layers), x)
         IN  [x |-> Activation("sigmoid", "sigmoid_layer", c), exc |-> None]

_build_decoder(s) ==
    LET decoder_input == _add_decoder_input(s)
        dense_layer == _add_dense_layer(s, decoder_input)
        reshape_layer == _add_reshape_layer(s, dense_layer)
        conv_transpose_layer == _add_conv_transpose_layers(s, reshape_layer)
    IN  IF conv_transpose_layer.exc # None
        THEN [s EXCEPT !.exc = conv_transpose_layer.exc]
        ELSE LET decoder_output == _add_decoder_output(s, conv_transpose_layer.x)
             IN  IF decoder_output.exc # None
                 THEN [s EXCEPT !.exc = decoder_output.exc]
                 ELSE [s EXCEPT !.decoder = Some(Model(decoder_output.x, "decoder"))]

\* the value of a weight tensor: which construction initialised it and how
\* many train calls have updated it since
WeightValue(serial, step) == [serial |-> serial, step |-> step]

_build_autoencoder(s) ==
    LET model_input == Val(s._model_input)
        model_output == AsLayer(Val(s.decoder), AsLayer(Val(s.encoder), model_input))
        model == Model(model_output, "model")
    IN  [s EXCEPT !.model = Some(model),
                  !.weight_values =
                      [k \in 1..Len(model.layers) |->
                          [j \in 1..Len(model.layers[k].weights) |->
                              WeightValue(s.serial, 0)]]]

\* _build as one call: the three steps, the first exception ending it
_build(s) ==
    Only({IF e.exc # None THEN e
          ELSE Only({IF d.exc # None THEN d ELSE _build_autoencoder(d) :
                     d \in {_build_decoder(e)}}) :
          e \in {_build_encoder(s)}})

\* ------------------------------------------------------- hyperparameters
Hyper(input_shape, conv_filters, conv_kernels, conv_strides, latent_space_dim) ==
    [input_shape |-> input_shape, conv_filters |-> conv_filters,
     conv_kernels |-> conv_kernels, conv_strides |-> conv_strides,
     latent_space_dim |-> latent_space_dim]

\* the hyperparameters train() of train.py constructs its Autoencoder with
TrainConfig ==
    Hyper(<<28, 28, 1>>, <<32, 64, 64, 64>>, <<3, 3, 3, 3>>, <<1, 2, 2, 1>>, 2)

InputShapes == (1..MaxDim) \X (1..MaxDim) \X ChannelValues

HyperSets ==
    {Hyper(i, f, k, st, l) :
        i \in InputShapes,
        f \in SeqsUpTo(FilterValues, MaxLayers),
        k \in SeqsUpTo(KernelValues, MaxLayers),
        st \in SeqsUpTo(StrideValues, MaxLayers),
        l \in LatentValues}

HyperOf(s) ==
    Hyper(s.input_shape, s.conv_filters, s.conv_kernels, s.conv_strides,
          s.latent_space_dim)

Ids == {1, 2}

\* -------------------------------------------- construction, step by step
Init ==
    /\ \E hp \in HyperSets \cup {TrainConfig} :
          self = NewObject(hp, 1)
    /\ pc = "_build_encoder"
    /\ ae = [i \in Ids |-> None]
    /\ dirs = {}
    /\ files = <<>>
    /\ outcome = None

Step(fn, next) ==
    /\ self' = fn
    /\ pc' = IF fn.exc # None THEN "raised" ELSE next
    /\ UNCHANGED <<ae, dirs, files, outcome>>

BuildEncoder == pc = "_build_encoder" /\ Step(_build_encoder(self), "_build_decoder")

BuildDecoder == pc = "_build_decoder" /\ Step(_build_decoder(self), "_build_autoencoder")

BuildAutoencoder == pc = "_build_autoencoder" /\ Step(_build_autoencoder(self), "returned")

Next == BuildEncoder \/ BuildDecoder \/ BuildAutoencoder

Spec == Init /\ [][Next]_vars

\* -------------------------------------------------------- the instance
\* Autoencoder(...): __init__ as one call
Autoencoder(hp, serial) == Only({_build(s) : s \in {NewObject(hp, serial)}})

\* compile(learning_rate): the model gets its optimizer and loss
compile(s) == [s EXCEPT !.compiled = TRUE]

\* train(x_train, batch_size, num_epochs): model.fit updates every tensor
train(s) ==
    [s EXCEPT !.weight_values =
        [k \in DOMAIN s.weight_values |->
            [j \in DOMAIN s.weight_values[k] |->
                WeightValue(s.weight_values[k][j].serial,
                            s.weight_values[k][j].step + 1)]]]

\* the largest number of updates a tensor of the instance has had
Trained(s, n) ==
    \E k \in DOMAIN s.weight_values : \E j \in DOMAIN s.weight_values[k] :
        s.weight_values[k][j].step >= n

\* ------------------------------------------------------------ file system
\* A path is the sequence of its components; os.path.join appends one.
Join(folder, name) == Append(folder, name)

Exists(fs, path) == path \in fs.dirs \/ path \in DOMAIN fs.files

\* os.makedirs: the folder and every missing ancestor
MakeDirs(fs, folder) ==
    [fs EXCEPT !.dirs = @ \cup {SubSeq(folder, 1, k) : k \in 1..Len(folder)}]

WriteFile(fs, path, content) ==
    [fs EXCEPT !.files = (path :> content) @@ @]

_create_folder_if_it_doesnt_exist(fs, folder) ==
    IF ~Exists(fs, folder) THEN MakeDirs(fs, folder) ELSE fs

\* pickle.dump of the list of five parameters: a stream of opcodes
PickleInt(n) == <<[op |-> "INT", arg |-> n]>>

PickleTuple(t) ==
    [k \in 1..Len(t) |-> [op |-> "INT", arg |-> t[k]]]
        \o <<[op |-> "TUPLE", arg |-> Len(t)]>>

PickleDump(parameters) ==
    PickleTuple(parameters[1]) \o PickleTuple(parameters[2])
        \o PickleTuple(parameters[3]) \o PickleTuple(parameters[4])
        \o PickleInt(parameters[5]) \o <<[op |-> "LIST", arg |-> 5]>>

RECURSIVE PickleRun(_, _, _)
\* pickle.load: the stack machine run over the stream from position pos;
\* an opcode with an argument n replaces the top n values by one value
PickleRun(stream, pos, stack) ==
    IF pos > Len(stream) THEN stack
    ELSE LET o == stream[pos]
             keep == Len(stack) - o.arg
         IN  IF o.op = "INT"
             THEN PickleRun(stream, pos + 1, Append(stack, [v |-> o.arg]))
             ELSE PickleRun(stream, pos + 1,
                      Append(SubSeq(stack, 1, keep),
                             [v |-> [k \in 1..o.arg |-> stack[keep + k].v]]))

PickleLoad(stream) == PickleRun(stream, 1, <<>>)[1].v

SaveParametersPath(save_folder) == Join(save_folder, "parameters.pkl")

\* (mutant) the strides written before the kernels
_save_parameters_reordered(s, fs, save_folder) ==
    LET parameters == <<s.input_shape, s.conv_filters, s.conv_strides,
                        s.conv_kernels, s.latent_space_dim>>
        save_path == SaveParametersPath(save_folder)
    IN  WriteFile(fs, save_path, PickleDump(parameters))

_save_parameters(s, fs, save_folder) ==
    LET parameters == <<s.input_shape, s.conv_filters, s.conv_kernels,
                        s.conv_strides, s.latent_space_dim>>
        save_path == SaveParametersPath(save_folder)
    IN  WriteFile(fs, save_path, PickleDump(parameters))

\* model.save_weights to HDF5: one group per layer of the model, holding the
\* layer's tensors
H5Weights(s) ==
    [k \in 1..Len(Val(s.model).layers) |->
        [name |-> Val(s.model).layers[k].name,
         weights |-> [j \in 1..Len(Val(s.model).layers[k].weights) |->
                        [shape |-> Val(s.model).layers[k].weights[j].shape,
                         value |-> s.weight_values[k][j]]]]]

\* (mutant) the weights written beside the folder instead of inside it
SaveWeightsPathUnjoined(save_folder) == <<"weights.h5">>

SaveWeightsPath(save_folder) == Join(save_folder, "weights.h5")

\* (mutant) an existing weights file is kept
_save_weights_keeping(s, fs, save_folder) ==
    IF Exists(fs, SaveWeightsPath(save_folder)) THEN fs
    ELSE WriteFile(fs, SaveWeightsPath(save_folder), H5Weights(s))

_save_weights(s, fs, save_folder) ==
    LET save_path == SaveWeightsPath(save_folder)
    IN  WriteFile(fs, save_path, H5Weights(s))

save(s, fs, save_folder) ==
    _save_weights(s,
        _save_parameters(s,
            _create_folder_if_it_doesnt_exist(fs, save_folder), save_folder),
        save_folder)

\* the entries of a sequence that hold weights
Weighted(seq) == SelectSeq(seq, LAMBDA e : e.weights # <<>>)

\* the stored tensors of the k-th weighted layer match the layer's
ShapesMatch(layer, group) ==
    /\ Len(group.weights) = Len(layer.weights)
    /\ \A j \in 1..Len(layer.weights) :
          group.weights[j].shape = layer.weights[j].shape

\* the values load_weights assigns: to each layer with weights those of the
\* group at the same position among the groups with weights
LoadedValues(s, h5) ==
    LET layers == Val(s.model).layers
        rank(k) == Len(Weighted(SubSeq(layers, 1, k)))
    IN  [k \in 1..Len(layers) |->
           IF layers[k].weights = <<>> THEN <<>>
           ELSE [j \in 1..Len(Weighted(h5)[rank(k)].weights) |->
                    Weighted(h5)[rank(k)].weights[j].value]]

\* (mutant) a stored layer with more or fewer tensors than the model's layer
\* is loaded as far as the tensors go
load_weights_truncating(s, fs, weights_path) ==
    IF weights_path \notin DOMAIN fs.files
    THEN [s EXCEPT !.exc = Raised("OSError", "load_weights", 0)]
    ELSE LET h5 == fs.files[weights_path]
             layers == Weighted(Val(s.model).layers)
             groups == Weighted(h5)
         IN  IF Len(groups) # Len(layers)
             THEN [s EXCEPT !.exc = Raised("ValueError", "load_weights", 0)]
             ELSE [s EXCEPT !.weight_values =
                     [k \in 1..Len(Val(s.model).layers) |->
                        [j \in 1..Len(s.weight_values[k]) |->
                           IF j <= Len(LoadedValues(s, h5)[k])
                           THEN LoadedValues(s, h5)[k][j]
                           ELSE s.weight_values[k][j]]]]

\* load_weights(weights_path): Keras loads an HDF5 file by topology and
\* raises when the file is missing, when the numbers of layers with weights
\* differ, when a layer's number of tensors differs, or when a tensor's
\* shape differs
load_weights(s, fs, weights_path) ==
    IF weights_path \notin DOMAIN fs.files
    THEN [s EXCEPT !.exc = Raised("OSError", "load_weights", 0)]
    ELSE LET h5 == fs.files[weights_path]
             layers == Weighted(Val(s.model).layers)
             groups == Weighted(h5)
         IN  IF Len(groups) # Len(layers)
             THEN [s EXCEPT !.exc = Raised("ValueError", "load_weights", 0)]
             ELSE IF \E k \in 1..Len(layers) : ~ShapesMatch(layers[k], groups[k])
             THEN [s EXCEPT !.exc =
                     Raised("ValueError", "load_weights",
                            CHOOSE k \in 1..Len(layers) :
                               /\ ~ShapesMatch(layers[k], groups[k])
                               /\ \A m \in 1..(k - 1) : ShapesMatch(layers[m], groups[m]))]
             ELSE [s EXCEPT !.weight_values = LoadedValues(s, h5)]

LoadParametersPath(save_folder) == Join(save_folder, "parameters.pkl")

LoadWeightsPath(save_folder) == Join(save_folder, "weights.h5")

\* the classmethod load; the result carries exc when the call raised
load(fs, save_folder, serial) ==
    LET parameters_path == LoadParametersPath(save_folder)
    IN  IF parameters_path \notin DOMAIN fs.files
        THEN [exc |-> Raised("FileNotFoundError", "load", 0)]
        ELSE LET weights_path == LoadWeightsPath(save_folder)
             IN  Only({IF autoencoder.exc # None THEN autoencoder
                       ELSE load_weights(autoencoder, fs, weights_path) :
                       autoencoder \in
                           {Autoencoder(Hyper(parameters[1], parameters[2],
                                              parameters[3], parameters[4],
                                              parameters[5]), serial) :
                               parameters \in {PickleLoad(fs.files[parameters_path])}}})

\* ------------------------------------------------ the driver's calls
Folders == {<<"model">>, <<"out", "run">>}

\* hyperparameters the driver constructs instances with: n = 1..MaxLayers
\* layers on the largest input, one filter, the same stride in every layer
DriverConfigs ==
    {Hyper(<<MaxDim, MaxDim, 1>>, [k \in 1..n |-> 1], [k \in 1..n |-> 3],
           [k \in 1..n |-> st], 1) :
        n \in 1..MaxLayers, st \in StrideValues}

\* hyperparameters of earlier runs whose artifacts a folder may still hold
EarlierConfigs ==
    {hp \in DriverConfigs : \A k \in 1..Len(hp.conv_strides) : hp.conv_strides[k] = 1}

\* what may be on disk before the driver runs: the folder "model" with a
\* file of its own, a file beside it, and possibly a parameters.pkl and a
\* weights.h5 that earlier runs saved
EarlierFiles ==
    {[dirs |-> {<<"model">>}, files |-> pf @@ wf @@ kept] :
        pf \in {<<>>} \cup
               {SaveParametersPath(<<"model">>) :> PickleDump(
                    <<hp.input_shape, hp.conv_filters, hp.conv_kernels,
                      hp.conv_strides, hp.latent_space_dim>>) : hp \in EarlierConfigs},
        wf \in {<<>>} \cup
               {SaveWeightsPath(<<"model">>) :> H5Weights(a) :
                    a \in {Autoencoder(hp, 3) : hp \in EarlierConfigs}},
        kept \in {(<<"model", "notes.txt">> :> "notes")
                       @@ (<<"notes.txt">> :> "notes")}}

FS == [dirs |-> dirs, files |-> files]

\* the last call of the driver and the exception it ended with, if any
Call(op, exc) == Some([op |-> op, exc |-> exc])

InitDriver ==
    /\ self = None
    /\ pc = "driver"
    /\ ae = [i \in Ids |-> None]
    /\ \E fs \in EarlierFiles : dirs = fs.dirs /\ files = fs.files
    /\ outcome = None

\* autoencoder = Autoencoder(...): the variable is bound only when
\* construction returns
New(i, hp) ==
    /\ ae[i] = None
    /\ \E a \in {Autoencoder(hp, i)} :
           /\ ae' = IF a.exc = None THEN [ae EXCEPT ![i] = Some(a)] ELSE ae
           /\ outcome' = Call("new", a.exc)
    /\ UNCHANGED <<self, pc, dirs, files>>

Compile(i) ==
    /\ ae[i] # None
    /\ ae' = [ae EXCEPT ![i] = Some(compile(Val(ae[i])))]
    /\ outcome' = Call("compile", None)
    /\ UNCHANGED <<self, pc, dirs, files>>

\* model.fit raises on a model that was not compiled
Train(i) ==
    /\ ae[i] # None
    /\ ~Trained(Val(ae[i]), MaxTrain)
    /\ IF Val(ae[i]).compiled
       THEN /\ ae' = [ae EXCEPT ![i] = Some(train(Val(ae[i])))]
            /\ outcome' = Call("train", None)
       ELSE /\ ae' = ae
            /\ outcome' = Call("train", Raised("RuntimeError", "train", 0))
    /\ UNCHANGED <<self, pc, dirs, files>>

Save(i, folder) ==
    /\ ae[i] # None
    /\ \E fs \in {save(Val(ae[i]), FS, folder)} :
           /\ dirs' = fs.dirs
           /\ files' = fs.files
    /\ outcome' = Call("save", None)
    /\ UNCHANGED <<self, pc, ae>>

\* autoencoder2 = Autoencoder.load(folder)
Load(i, folder) ==
    /\ \E a \in {load(FS, folder, 0)} :
           /\ ae' = IF a.exc = None THEN [ae EXCEPT ![i] = Some(a)] ELSE ae
           /\ outcome' = Call("load", a.exc)
    /\ UNCHANGED <<self, pc, dirs, files>>

\* the driver of train.py: instance 1 is constructed, compiled, trained and
\* saved; instance 2 is what load returns, and may be saved again
NextDriver ==
    \/ \E hp \in DriverConfigs : New(1, hp)
    \/ Compile(1)
    \/ Train(1)
    \/ \E i \in Ids, folder \in Folders : Save(i, folder)
    \/ \E folder \in Folders : Load(2, folder)

SpecDriver == InitDriver /\ [][NextDriver]_vars

\* ------------------------------------------------- claims on construction
EqualLengths ==
    /\ Len(self.conv_kernels) = Len(self.conv_filters)
    /\ Len(self.conv_strides) = Len(self.conv_filters)

Shortest(a, b) == IF a < b THEN a ELSE b

ExplicitNames(model) ==
    {model.layers[k].name : k \in {j \in 1..Len(model.layers) : model.layers[j].explicit_name}}

NumExplicit(model) ==
    Cardinality({j \in 1..Len(model.layers) : model.layers[j].explicit_name})

\* C1 (as claimed): with equal-length sequences of n >= 1 layers, a finished
\* construction has an encoder output of latent_space_dim elements and a
\* decoder output whose height and width are the input's.
C1_ShapesRestored ==
    (pc = "returned" /\ EqualLengths /\ self._num_conv_layers >= 1) =>
        /\ Val(self.encoder).output_shape = <<self.latent_space_dim>>
        /\ Val(self.decoder).output_shape[1] = self.input_shape[1]
        /\ Val(self.decoder).output_shape[2] = self.input_shape[2]

C5_ZeroLayersValid ==
    (self.conv_filters = <<>> /\ self.conv_kernels = <<>> /\ self.conv_strides = <<>>)
        => pc # "raised"

\* C5 (amended): with zero layers the encoder is built as the raw input
\* flattened and followed directly by the dense bottleneck, and construction
\* then fails with IndexError at index 0 in the decoder output layer: no
\* decoder, no autoencoder and no instance is produced.
C5_ZeroLayersFailInDecoderOutput ==
    (self.conv_filters = <<>> /\ self.conv_kernels = <<>> /\ self.conv_strides = <<>>) =>
        /\ pc \in {"_build_encoder", "_build_decoder", "raised"}
        /\ pc # "_build_encoder" =>
              LET L == Val(self.encoder).layers
              IN  /\ Len(L) = 3
                  /\ L[1].cls = "InputLayer" /\ L[1].output_shape = self.input_shape
                  /\ L[2].cls = "Flatten" /\ L[2].output_shape = <<Prod(self.input_shape)>>
                  /\ L[3].cls = "Dense" /\ L[3].output_shape = <<self.latent_space_dim>>
        /\ pc = "raised" =>
              /\ self.exc = Raised("IndexError", "_add_decoder_output", 0)
              /\ self.decoder = None /\ self.model = None

C5_Witness ==
    /\ pc = "raised" /\ self.encoder # None
    /\ self.conv_filters = <<>> /\ self.conv_kernels = <<>> /\ self.conv_strides = <<>>

\* C8: with the hyperparameters of train.py (28x28x1, filters 32,64,64,64,
\* kernels 3,3,3,3, strides 1,2,2,1, latent dimension 2) construction
\* succeeds, the encoder output has shape (2), and the autoencoder output
\* has shape 28x28x1, produced by the final sigmoid layer.
C8_TrainScenario ==
    HyperOf(self) = TrainConfig =>
        /\ pc # "raised"
        /\ pc = "returned" =>
              LET D == Val(self.decoder).layers
              IN  /\ Val(self.encoder).output_shape = <<2>>
                  /\ Val(self.model).input_shape = <<28, 28, 1>>
                  /\ Val(self.model).output_shape = <<28, 28, 1>>
                  /\ Val(self.decoder).output_shape = <<28, 28, 1>>
                  /\ D[Len(D)].cls = "Activation"
                  /\ D[Len(D)].activation = "sigmoid"
                  /\ D[Len(D)].name = "sigmoid_layer"

C8_Witness == pc = "returned" /\ HyperOf(self) = TrainConfig

\* what C9 says of one state of the construction
C9_State(s) ==
    /\ s.model # None => s.decoder # None
    /\ s.decoder # None => s.encoder # None
    /\ s.encoder # None =>
          LET L == Val(s.encoder).layers
          IN  /\ s._shape_before_bottleneck # None
              /\ Val(s._shape_before_bottleneck) = L[Len(L) - 2].output_shape
              /\ L[Len(L) - 1].cls = "Flatten"
              /\ s._num_conv_layers >= 1 =>
                    L[Len(L) - 2].name = "encoder_bn_" \o ToString(s._num_conv_layers)
    /\ s.decoder # None =>
          LET D == Val(s.decoder).layers
          IN  /\ D[2].name = "decoder_dense"
              /\ D[2].output_shape = <<Prod(Val(s._shape_before_bottleneck))>>
              /\ D[3].cls = "Reshape"
              /\ D[3].output_shape = Val(s._shape_before_bottleneck)

\* C9: the build steps run in the order encoder, decoder, autoencoder; the
\* derived shape is set, to the output shape of the last encoder convolution
\* block, when the encoder is built, before the decoder's dense layer
\* exists, and never changes afterwards; the decoder's dense layer has as
\* many units as the derived shape has elements and the reshape target is
\* the derived shape.
C9_DerivedShapeOrder ==
    [][/\ C9_State(self')
       /\ self.encoder = None => (self'.decoder = None /\ self'.model = None)
       /\ self.decoder = None => self'.model = None
       /\ self._shape_before_bottleneck # None =>
             self'._shape_before_bottleneck = self._shape_before_bottleneck]_vars

C9_Witness ==
    /\ pc = "returned" /\ self._num_conv_layers >= 2
    /\ Val(self._shape_before_bottleneck) # self.input_shape

\* C10: for n >= 1 layers the names the builder assigns are pairwise distinct
\* within the encoder (3n + 2 names) and within the decoder (3n + 4 names).
C10_NamesDistinct ==
    (self._num_conv_layers >= 1) =>
        /\ self.encoder # None =>
              /\ NumExplicit(Val(self.encoder)) = 3 * self._num_conv_layers + 2
              /\ Cardinality(ExplicitNames(Val(self.encoder)))
                    = NumExplicit(Val(self.encoder))
        /\ self.decoder # None =>
              /\ NumExplicit(Val(self.decoder)) = 3 * self._num_conv_layers + 4
              /\ Cardinality(ExplicitNames(Val(self.decoder)))
                    = NumExplicit(Val(self.decoder))

C10_Witness ==
    /\ pc = "returned" /\ self._num_conv_layers >= 2
    /\ "decoder_conv_transpose_layer_2" \in ExplicitNames(Val(self.decoder))
    /\ "dcoder_conv_transpose_layer_2" \in ExplicitNames(Val(self.decoder))

\* --------------------------------------------- claims on save and load
FSNext == [dirs |-> dirs', files |-> files']

ParametersOf(s) ==
    <<s.input_shape, s.conv_filters, s.conv_kernels, s.conv_strides,
      s.latent_space_dim>>

\* the shapes, and the values, of the tensors a weights file holds for its
\* layers with weights
StoredShapes(h5) ==
    [k \in 1..Len(Weighted(h5)) |->
        [j \in 1..Len(Weighted(h5)[k].weights) |-> Weighted(h5)[k].weights[j].shape]]

StoredValues(h5) ==
    [k \in 1..Len(Weighted(h5)) |->
        [j \in 1..Len(Weighted(h5)[k].weights) |-> Weighted(h5)[k].weights[j].value]]

\* the shapes, and the values, of the tensors of an instance's layers with
\* weights
ModelShapes(s) ==
    [k \in 1..Len(Weighted(Val(s.model).layers)) |->
        [j \in 1..Len(Weighted(Val(s.model).layers)[k].weights) |->
            Weighted(Val(s.model).layers)[k].weights[j].shape]]

ModelValues(s) == SelectSeq(s.weight_values, LAMBDA v : v # <<>>)

\* C2: for every instance m the driver holds, after any compile and train
\* calls, load(folder) after m.save(folder) returns an instance with m's
\* five hyperparameters, m's weights as they are at the save, and the same
\* encoder, decoder and autoencoder graphs.
C2_RoundTrip ==
    \A i \in Ids : ae[i] # None =>
        \A folder \in Folders :
            LET m == Val(ae[i])
                r == load(save(m, FS, folder), folder, 0)
            IN  /\ r.exc = None
                /\ ParametersOf(r) = ParametersOf(m)
                /\ r.weight_values = m.weight_values
                /\ r.encoder = m.encoder
                /\ r.decoder = m.decoder
                /\ r.model = m.model

C2_Witness ==
    /\ outcome = Call("load", None)
    /\ ae[1] # None /\ ae[2] # None
    /\ Trained(Val(ae[1]), 1)
    /\ Val(ae[2]).weight_values = Val(ae[1]).weight_values
    /\ ParametersOf(Val(ae[2])) = ParametersOf(Val(ae[1]))
    /\ Val(ae[2]).serial # Val(ae[1]).serial

\* C3: load(folder) returns an instance exactly when parameters.pkl and
\* weights.h5 both exist in folder and the stored tensors match, layer by
\* layer, those of the architecture rebuilt from the stored hyperparameters;
\* otherwise it raises and binds no instance; what it returns holds every
\* stored value, none dropped and none added.
C3_LoadAllOrNothing ==
    [][\A folder \in Folders : Load(2, folder) =>
          LET pp == Join(folder, "parameters.pkl")
              wp == Join(folder, "weights.h5")
              p == PickleLoad(files[pp])
              rebuilt == Autoencoder(Hyper(p[1], p[2], p[3], p[4], p[5]), 0)
              ok == /\ pp \in DOMAIN files
                    /\ wp \in DOMAIN files
                    /\ StoredShapes(files[wp]) = ModelShapes(rebuilt)
          IN  /\ Val(outcome').exc = None <=> ok
              /\ ~ok => ae' = ae
              /\ ok => /\ ParametersOf(Val(ae'[2])) = p
                       /\ ModelShapes(Val(ae'[2])) = StoredShapes(files[wp])
                       /\ ModelValues(Val(ae'[2])) = StoredValues(files[wp])]_vars

\* load has failed on weights of an architecture with another number of layers
C3_Witness ==
    /\ outcome = Call("load", Raised("ValueError", "load_weights", 1))
    /\ ae[2] = None
    /\ <<"model", "parameters.pkl">> \in DOMAIN files
    /\ <<"model", "weights.h5">> \in DOMAIN files
    /\ Len(Weighted(files[<<"model", "weights.h5">>])[1].weights)
         # 6 * Len(PickleLoad(files[<<"model", "parameters.pkl">>])[2]) + 2

\* C6: every save(folder), whatever the folder held before, leaves in it the
\* parameters and the weights of the saving instance as of that call, both
\* from this one save, and saving again changes nothing.
C6_SaveOverwritesBoth ==
    [][\A i \in Ids, folder \in Folders : Save(i, folder) =>
          LET m == Val(ae[i])
              pp == Join(folder, "parameters.pkl")
              wp == Join(folder, "weights.h5")
          IN  /\ pp \in DOMAIN files' /\ wp \in DOMAIN files'
              /\ PickleLoad(files'[pp]) = ParametersOf(m)
              /\ StoredShapes(files'[wp]) = ModelShapes(m)
              /\ StoredValues(files'[wp]) = ModelValues(m)
              /\ save(m, FSNext, folder) = FSNext]_vars

\* both folders hold weights saved after training while instance 2 still
\* holds the untrained weights of instance 1 it loaded from one of them: that
\* folder has been saved into twice, with a train call in between
C6_Witness ==
    /\ outcome = Call("save", None)
    /\ ae[1] # None /\ ae[2] # None
    /\ Val(ae[2]).weight_values[2][1] = WeightValue(1, 0)
    /\ \A folder \in Folders :
          /\ Join(folder, "weights.h5") \in DOMAIN files
          /\ StoredValues(files[Join(folder, "weights.h5")])[1][1] = WeightValue(1, 1)
          /\ PickleLoad(files[Join(folder, "parameters.pkl")]) = ParametersOf(Val(ae[1]))

\* C7: save(folder) creates folder (with its missing ancestors) when it does
\* not exist, creates or overwrites exactly parameters.pkl and weights.h5
\* inside it, the two paths load(folder) reads, and leaves every other file
\* and directory and every instance unchanged.
C7_SaveFrame ==
    [][\A i \in Ids, folder \in Folders : Save(i, folder) =>
          LET pp == Join(folder, "parameters.pkl")
              wp == Join(folder, "weights.h5")
          IN  /\ dirs' = IF folder \in dirs THEN dirs
                         ELSE dirs \cup {SubSeq(folder, 1, k) : k \in 1..Len(folder)}
              /\ folder \in dirs'
              /\ DOMAIN files' = DOMAIN files \cup {pp, wp}
              /\ \A q \in DOMAIN files \ {pp, wp} : files'[q] = files[q]
              /\ LoadParametersPath(folder) = pp /\ LoadWeightsPath(folder) = wp
              /\ load(FSNext, folder, 0).exc = None
              /\ ae' = ae]_vars

C7_Witness ==
    /\ outcome = Call("save", None)
    /\ <<"out", "run">> \in dirs /\ <<"out">> \in dirs
    /\ <<"out", "run", "parameters.pkl">> \in DOMAIN files
    /\ <<"out", "run", "weights.h5">> \in DOMAIN files
    /\ <<"model", "parameters.pkl">> \notin DOMAIN files
    /\ files[<<"model", "notes.txt">>] = "notes"
====
